---------------------------- MODULE Spec2Model ----------------------------
(***************************************************************************)
(* heat/core/manipulations.py: the distributed sort and the distributed    *)
(* unique of a DNDarray whose data is split along one axis over the        *)
(* processes of an MPI communicator.                                       *)
(*                                                                         *)
(* An array is kept in its own layout (a sequence for one dimension, a     *)
(* sequence of rows for two); the tensors the algorithms work on after     *)
(* a.transpose(axis, 0) are kept per position along the other dimension:   *)
(* t[p] is the sequence of values along dimension 0 at position p.         *)
(***************************************************************************)
EXTENDS Integers, Sequences, FiniteSets, TLC

\* ------------------------------------------------------------------ bounds
MaxProcs == 3

MaxCells == 3

MaxCols == 2

MaxVal == 2

\* The longest one-column arrays of LongInit; arrays that are already in
\* ascending order are twice as long.
LongLen == 6

\* unique is called on arrays of at most MaxUCells elements with values in
\* 0 .. MaxUVal, and on arrays of LongRows rows along the axis that are split
\* along the other axis.
MaxUCells == 4

MaxUVal == 1

LongRows == 3

\* The tags are computed for positions <<i>> and <<i, j>> along the non-split
\* dimensions with i up to MaxIdxA and j up to MaxIdxB.
MaxIdxA == 1

MaxIdxB == 10

\* One-row arrays split along axis 1 are also sorted by WideProcs processes,
\* with values from 0 .. WideVal.
WideProcs == 3

WideVal == 1

\* -------------------------------------------------------------- small helpers
None == 0 - 1

Values == 0 .. MaxVal

\* What an element of a torch.empty tensor may hold before it is written: any
\* number, here one below and one above every value of the input.
Garbage == {0 - 1, MaxVal + 1}

Min2(x, y) == IF x <= y THEN x ELSE y

RECURSIVE SumSeq(_)
SumSeq(s) == IF s = <<>> THEN 0 ELSE Head(s) + SumSeq(Tail(s))

RECURSIVE MaxSeq(_)
MaxSeq(s) ==
    IF Len(s) = 1 THEN s[1]
    ELSE LET m == MaxSeq(Tail(s)) IN IF Head(s) >= m THEN Head(s) ELSE m

RECURSIVE Flatten(_)
Flatten(ss) == IF ss = <<>> THEN <<>> ELSE Head(ss) \o Flatten(Tail(ss))

\* The bag of a sequence's values, as a function value -> count over dom.
CountIn(s, v) == Cardinality({i \in 1 .. Len(s) : s[i] = v})

\* Python's index normalisation of k into a dimension of n entries.
PyIndexOk(k, n) == k >= 0 - n /\ k < n

PyIndex(k, n) == IF k < 0 THEN k + n ELSE k

\* torch.sort along dimension 0 of one position: ascending, or descending.
Before(x, y, d) == IF d THEN x >= y ELSE x <= y

RECURSIVE InsertSorted(_, _, _)
InsertSorted(x, s, d) ==
    IF s = <<>> THEN <<x>>
    ELSE IF Before(x, Head(s), d) THEN <<x>> \o s
         ELSE <<Head(s)>> \o InsertSorted(x, Tail(s), d)

\* A variant of TorchSort that leaves the sequence as it is.
KeepOrder(s, d) == s

RECURSIVE TorchSort(_, _)
TorchSort(s, d) ==
    IF s = <<>> THEN <<>> ELSE InsertSorted(Head(s), TorchSort(Tail(s), d), d)

\* values.argmin() / values.argmax(): the 0-based index of the first extremum.
ArgMin(s) == CHOOSE k \in 0 .. Len(s) - 1 :
    /\ \A j \in 1 .. Len(s) : s[k + 1] <= s[j]
    /\ \A j \in 1 .. k : s[j] > s[k + 1]

ArgMax(s) == CHOOSE k \in 0 .. Len(s) - 1 :
    /\ \A j \in 1 .. Len(s) : s[k + 1] >= s[j]
    /\ \A j \in 1 .. k : s[j] < s[k + 1]

\* comm.counts_displs_shape / comm.chunk: contiguous chunks, balanced to within
\* one element, the remainder given to the lowest ranks.
ChunkCount(n, sz, r) == (n \div sz) + (IF r < n % sz THEN 1 ELSE 0)

ChunkDispl(n, sz, r) == r * (n \div sz) + Min2(r, n % sz)

\* ------------------------------------------------------------------- state
VARIABLES
    op,                 \* "sort" or "unique": the call being made
    size,               \* a.comm.Get_size()
    ndim,               \* len(a.shape)
    gshape,             \* a.gshape
    split,              \* a.split (None: not split)
    axis,               \* the axis argument after its default is applied
    descending,         \* sort's descending argument
    sorted,             \* unique's sorted argument
    return_inverse,     \* unique's return_inverse argument
    garr,               \* the global array
    a,                  \* a[r]: process r's local data, a._DNDarray__array
    pc,                 \* pc[r]: where process r is in the call
    err,                \* err[r]: the exception process r raised, or "none"
    calls,              \* calls[r]: the collectives process r has issued, in order
    p2p,                \* p2p[r]: the Send and Recv calls process r has completed
    chan,               \* chan[<<s, d>>]: the messages s sent to d, not yet received
    local_sorted,
    local_pivots,
    pivot_buffer,
    global_pivots,
    partition_matrix,
    index_matrix,
    send_recv_matrix,
    local_result,
    partial,
    problem_idx,
    cur_i,              \* the rebalance loop's rank i of process r
    cur_p,              \* the rebalance loop's position of process r
    result,             \* result[r]: the local tensor of the array sort returns
    lres,               \* lres[r]: the distinct entries of process r's data
    inverse_pos,        \* inverse_pos[r]: for each local entry its index in lres[r]
    uniques_buf,        \* the processes' numbers of distinct entries, gathered
    gres_buf,           \* the processes' lres, gathered
    inverse_buf,        \* the processes' inverse_pos, gathered
    max_pos,            \* the rank with the most distinct entries
    indices,            \* the indices the coordinator broadcasts
    gres,               \* gres[r]: the entries of the result on process r
    g_inverse,          \* g_inverse[r]: for each entry of gres_buf its index in gres[r]
    inverse_indices,    \* inverse_indices[r]: the inverse indices process r returns
    transfers,          \* transfers[r]: the rebalance transfers process r has worked out
    ncall,              \* 1 in the call on a, 2 in the call on the first call's result
    first_res,          \* the entries of the first call's result, once it is called on
    idx_send,           \* the index of an element a process sends in the exchange
    idx_recv,           \* the position a process posts a receive for
    tag_send,           \* the tag of the Send of line 204
    tag_recv            \* the tag of the Recv of line 216

inputVars == <<op, size, ndim, gshape, split, axis, descending, sorted,
               return_inverse, garr, a>>

sortVars == <<local_sorted, local_pivots, pivot_buffer, global_pivots,
              partition_matrix, index_matrix, send_recv_matrix, local_result,
              partial, problem_idx, cur_i, cur_p, result>>

uniqueVars == <<lres, inverse_pos, uniques_buf, gres_buf, inverse_buf, max_pos,
                indices, gres, g_inverse, inverse_indices>>

callVars == <<ncall, first_res>>

schedVars == <<transfers>>

tagVars == <<idx_send, idx_recv, tag_send, tag_recv>>

vars == <<inputVars, callVars, tagVars, schedVars, pc, err, calls, p2p, chan, sortVars,
          uniqueVars>>

Ranks == 0 .. size - 1

\* ------------------------------------------------------------- array layout
\* The global length along the split axis, and the chunk each process holds.
SplitLen == gshape[split + 1]

counts == [r \in Ranks |-> ChunkCount(SplitLen, size, r)]

\* Process r's local data of the global array g: the whole of it when the array
\* is not split, else its chunk along the split axis.
LocalOf(g, r) ==
    IF split = None THEN g
    ELSE LET lo == ChunkDispl(gshape[split + 1], size, r) + 1
             hi == ChunkDispl(gshape[split + 1], size, r)
                   + ChunkCount(gshape[split + 1], size, r)
         IN IF split = 0 THEN SubSeq(g, lo, hi)
            ELSE [i \in 1 .. gshape[1] |-> SubSeq(g[i], lo, hi)]

\* a.lshape
lshape(r) ==
    IF split = None THEN gshape
    ELSE [k \in 1 .. ndim |->
            IF k = split + 1 THEN ChunkCount(gshape[split + 1], size, r)
            ELSE gshape[k]]

\* The positions along the dimension that is not `ax`: one (the empty index) for
\* a one-dimensional array.
NPosOf(shape, ax) == IF ndim = 1 THEN 1 ELSE shape[2 - ax]

\* t.transpose(ax, 0), per position: the values along `ax` at each position.
Transposed(t, shape, ax) ==
    [p \in 1 .. NPosOf(shape, ax) |->
        [i \in 1 .. shape[ax + 1] |->
            IF ndim = 1 THEN t[i]
            ELSE IF ax = 0 THEN t[i][p] ELSE t[p][i]]]

\* The tensor in the array's layout again: t.transpose(0, ax) of a tensor with
\* n entries along dimension 0.
TransposedBack(t, n, npos, ax) ==
    IF ndim = 1 THEN [i \in 1 .. n |-> t[1][i]]
    ELSE IF ax = 0 THEN [i \in 1 .. n |-> [p \in 1 .. npos |-> t[p][i]]]
         ELSE [p \in 1 .. npos |-> [i \in 1 .. n |-> t[p][i]]]

\* The non-split positions of the distributed sort and the local length.
NPos == NPosOf(gshape, axis)

Pos == 1 .. NPos

\* np.ndenumerate's index of position p without the leading dimension.
IdxOf(p) == IF ndim = 1 THEN <<>> ELSE <<p - 1>>


\* ------------------------------------------------------------ initial states
\* The shapes of the arrays a call is made on: at most MaxCells elements, at
\* most MaxCols entries along the dimension that is not split (along one of the
\* two, when the array is not split), and at least one entry along it.
ShapeOk(sh, sp) ==
    IF Len(sh) = 1 THEN sh[1] <= MaxCells
    ELSE /\ sh[1] * sh[2] <= MaxCells
         /\ sp # 0 => sh[1] >= 1
         /\ sp # 1 => sh[2] >= 1
         /\ sp = 0 => sh[2] <= MaxCols
         /\ sp = 1 => sh[1] <= MaxCols
         /\ sp = None => (sh[1] <= MaxCols \/ sh[2] <= MaxCols)

Shapes(nd) ==
    IF nd = 1 THEN {<<n>> : n \in 0 .. MaxCells}
    ELSE {<<n, m>> : n \in 0 .. MaxCells, m \in 0 .. MaxCells}

Arrays(sh) ==
    IF Len(sh) = 1 THEN [1 .. sh[1] -> Values]
    ELSE [1 .. sh[1] -> [1 .. sh[2] -> Values]]

\* sort's default: the last axis.
DefaultAxis(ax, nd) == IF ax = None THEN nd - 1 ELSE ax

InitInput ==
    /\ size \in 1 .. MaxProcs
    /\ ndim \in {1, 2}
    /\ split \in {None} \cup (0 .. ndim - 1)
    /\ gshape \in {sh \in Shapes(ndim) : ShapeOk(sh, split)}
    /\ garr \in Arrays(gshape)
    /\ a = [r \in Ranks |-> LocalOf(garr, r)]

InitComm ==
    /\ pc = [r \in Ranks |-> "start"]
    /\ err = [r \in Ranks |-> "none"]
    /\ calls = [r \in Ranks |-> <<>>]
    /\ p2p = [r \in Ranks |-> 0]
    /\ chan = [s \in Ranks \X Ranks |-> <<>>]

\* The call is the first one, on a; no tag has been computed.
InitCallVars ==
    /\ ncall = 1
    /\ first_res = <<>>

InitTagVars ==
    /\ idx_send = <<>> /\ idx_recv = <<>>
    /\ tag_send = None /\ tag_recv = None

InitSortVars ==
    /\ local_sorted = [r \in Ranks |-> <<>>]
    /\ local_pivots = [r \in Ranks |-> <<>>]
    /\ pivot_buffer = <<>>
    /\ global_pivots = [r \in Ranks |-> <<>>]
    /\ partition_matrix = [r \in Ranks |-> <<>>]
    /\ index_matrix = [r \in Ranks |-> <<>>]
    /\ send_recv_matrix = [r \in Ranks |-> <<>>]
    /\ local_result = [r \in Ranks |-> <<>>]
    /\ partial = [r \in Ranks |-> <<>>]
    /\ problem_idx = [r \in Ranks |-> <<>>]
    /\ cur_i = [r \in Ranks |-> 0]
    /\ cur_p = [r \in Ranks |-> 1]
    /\ result = [r \in Ranks |-> <<>>]
    /\ transfers = [r \in Ranks |-> <<>>]

InitUniqueVars ==
    /\ lres = [r \in Ranks |-> <<>>]
    /\ inverse_pos = [r \in Ranks |-> <<>>]
    /\ uniques_buf = <<>>
    /\ gres_buf = <<>>
    /\ inverse_buf = <<>>
    /\ max_pos = 0
    /\ indices = <<>>
    /\ gres = [r \in Ranks |-> <<>>]
    /\ g_inverse = [r \in Ranks |-> <<>>]
    /\ inverse_indices = [r \in Ranks |-> <<>>]

\* The call sort(a) of the documentation's first scenario: four processes, two
\* elements each.
InitScenario1 ==
    /\ size = 4 /\ ndim = 1 /\ split = 0 /\ gshape = <<8>>
    /\ garr = <<5, 3, 1, 4, 2, 0, 7, 6>>
    /\ a = [r \in Ranks |-> LocalOf(garr, r)]
    /\ axis = DefaultAxis(None, ndim)
    /\ descending = FALSE

Init ==
    /\ op = "sort"
    /\ \/ /\ InitInput
          /\ \E ax \in {None} \cup (0 .. ndim - 1) : axis = DefaultAxis(ax, ndim)
          /\ descending \in BOOLEAN
       \/ InitScenario1
    /\ sorted = FALSE /\ return_inverse = FALSE
    /\ InitComm
    /\ InitCallVars
    /\ InitTagVars
    /\ InitSortVars
    /\ InitUniqueVars

\* -------------------------------------------------------------------- sort
\* Process r raises exception e and leaves the call.
Raise(r, e) ==
    /\ pc' = [pc EXCEPT ![r] = "raised"]
    /\ err' = [err EXCEPT ![r] = e]

\* The local length along the sort axis, a.lshape[axis].
LocalLen(r) == lshape(r)[axis + 1]

\* sort takes the distributed path when the sort axis is the split axis.
IsDistributed == ~ (split = None \/ axis # split)

\* Lines 85-87: the array is not split along the sort axis; every process sorts
\* its own data along axis and returns.
FastPath(r) ==
    /\ op = "sort" /\ pc[r] = "start"
    /\ ~ IsDistributed
    /\ LET ordered == [p \in 1 .. NPosOf(lshape(r), axis) |->
                        TorchSort(Transposed(a[r], lshape(r), axis)[p], descending)]
       IN /\ partial' = [partial EXCEPT ![r] = ordered]
          /\ result' = [result EXCEPT ![r] =
                TransposedBack(ordered, LocalLen(r), NPosOf(lshape(r), axis), axis)]
    /\ pc' = [pc EXCEPT ![r] = "done"]
    /\ UNCHANGED <<inputVars, callVars, tagVars, schedVars, uniqueVars, err, calls, p2p, chan, local_sorted, local_pivots,
                   pivot_buffer, global_pivots, partition_matrix, index_matrix,
                   send_recv_matrix, local_result, problem_idx, cur_i, cur_p>>

\* Line 105: the indices of the size local pivots in a sorted chunk of n entries.
partitions(n) == [x \in 1 .. size |-> (x * n) \div (size + 1)]

\* Lines 92-121: transpose, sort the chunk, and pick the local pivots; a process
\* whose chunk is empty contributes none.
LocalSort(r) ==
    /\ op = "sort" /\ pc[r] = "start"
    /\ IsDistributed
    /\ LET ordered == [p \in Pos |->
                        TorchSort(Transposed(a[r], lshape(r), axis)[p], descending)]
           length == LocalLen(r)
       IN /\ local_sorted' = [local_sorted EXCEPT ![r] = ordered]
          /\ local_pivots' = [local_pivots EXCEPT ![r] =
                [p \in Pos |->
                    IF counts[r] > 0
                    THEN [x \in 1 .. size |-> ordered[p][partitions(length)[x] + 1]]
                    ELSE <<>>]]
    /\ pc' = [pc EXCEPT ![r] = "gatherv"]
    /\ UNCHANGED <<inputVars, callVars, tagVars, schedVars, uniqueVars, err, calls, p2p, chan, pivot_buffer, global_pivots,
                   partition_matrix, index_matrix, send_recv_matrix, local_result,
                   partial, problem_idx, cur_i, cur_p, result>>

\* Every process has issued collective c, with the given root (None for a
\* collective without root).
Called(c, root) == [r \in Ranks |-> Append(calls[r], <<c, root>>)]

\* Line 122: the root gathers the pivots of the processes, in rank order.
Gatherv ==
    /\ op = "sort"
    /\ \A r \in Ranks : pc[r] = "gatherv"
    /\ pivot_buffer' = [p \in Pos |->
            Flatten([r \in 1 .. size |-> local_pivots[r - 1][p]])]
    /\ calls' = Called("Gatherv", 0)
    /\ pc' = [r \in Ranks |-> IF r = 0 THEN "pivots" ELSE "bcast"]
    /\ UNCHANGED <<inputVars, callVars, tagVars, schedVars, uniqueVars, err, p2p, chan, local_sorted, local_pivots,
                   global_pivots, partition_matrix, index_matrix, send_recv_matrix,
                   local_result, partial, problem_idx, cur_i, cur_p, result>>

\* A variant of global_partitions: the same indices, the highest first.
DownwardPartitions(n) == [x \in 1 .. size - 1 |-> ((size - x) * n) \div size]

\* Line 133: the indices of the size - 1 global pivots among n sorted pivots.
global_partitions(n) == [x \in 1 .. size - 1 |-> (x * n) \div size]

\* Lines 129-135: rank 0 sorts the gathered pivots and picks the global ones;
\* indexing past the end of the sorted pivots raises IndexError.
GlobalPivotCompute ==
    /\ op = "sort" /\ pc[0] = "pivots"
    /\ LET sorted_pivots == [p \in Pos |-> TorchSort(pivot_buffer[p], descending)]
           length == size * Cardinality({r \in Ranks : counts[r] > 0})
       IN IF \E x \in 1 .. size - 1 : global_partitions(length)[x] >= length
          THEN /\ Raise(0, "IndexError")
               /\ UNCHANGED global_pivots
          ELSE /\ global_pivots' = [global_pivots EXCEPT ![0] =
                     [p \in Pos |->
                        [x \in 1 .. size - 1 |->
                            sorted_pivots[p][global_partitions(length)[x] + 1]]]]
               /\ pc' = [pc EXCEPT ![0] = "bcast"]
               /\ UNCHANGED err
    /\ UNCHANGED <<inputVars, callVars, tagVars, schedVars, uniqueVars, calls, p2p, chan, local_sorted, local_pivots,
                   pivot_buffer, partition_matrix, index_matrix, send_recv_matrix,
                   local_result, partial, problem_idx, cur_i, cur_p, result>>

\* Line 138: rank 0 broadcasts the global pivots.
Bcast ==
    /\ op = "sort"
    /\ \A r \in Ranks : pc[r] = "bcast"
    /\ global_pivots' = [r \in Ranks |-> global_pivots[0]]
    /\ calls' = Called("Bcast", 0)
    /\ pc' = [r \in Ranks |-> "classify"]
    /\ UNCHANGED <<inputVars, callVars, tagVars, schedVars, uniqueVars, err, p2p, chan, local_sorted, local_pivots,
                   pivot_buffer, partition_matrix, index_matrix, send_recv_matrix,
                   local_result, partial, problem_idx, cur_i, cur_p, result>>

\* Lines 156-159: the bucket of value val at position p: the first pivot that val
\* is strictly before (operator.lt, operator.gt when descending), else the last.
op_func(val, piv) == IF descending THEN val > piv ELSE val < piv

Bucket(gp, p, val) ==
    LET n == Len(gp[p])
        hits == {k \in 0 .. n : k = n \/ op_func(val, gp[p][k + 1])}
    IN CHOOSE k \in hits : \A j \in hits : k <= j

\* Lines 143-163: every local element gets its destination rank; the local
\* partition_matrix counts the elements per destination and position.
Classify(r) ==
    /\ op = "sort" /\ pc[r] = "classify"
    /\ LET im == [p \in Pos |->
                    [i \in 1 .. Len(local_sorted[r][p]) |->
                        Bucket(global_pivots[r], p, local_sorted[r][p][i])]]
       IN /\ index_matrix' = [index_matrix EXCEPT ![r] = im]
          /\ partition_matrix' = [partition_matrix EXCEPT ![r] =
                [k \in Ranks |-> [p \in Pos |-> CountIn(im[p], k)]]]
    /\ pc' = [pc EXCEPT ![r] = "allreduce"]
    /\ UNCHANGED <<inputVars, callVars, tagVars, schedVars, uniqueVars, err, calls, p2p, chan, local_sorted, local_pivots,
                   pivot_buffer, global_pivots, send_recv_matrix, local_result,
                   partial, problem_idx, cur_i, cur_p, result>>

\* Line 170: the partition matrices of all processes are summed on each.
Allreduce ==
    /\ op = "sort"
    /\ \A r \in Ranks : pc[r] = "allreduce"
    /\ partition_matrix' = [r \in Ranks |->
            [k \in Ranks |->
                [p \in Pos |->
                    SumSeq([s \in 1 .. size |-> partition_matrix[s - 1][k][p]])]]]
    /\ calls' = Called("Allreduce", None)
    /\ pc' = [r \in Ranks |-> "alltoall"]
    /\ UNCHANGED <<inputVars, callVars, tagVars, schedVars, uniqueVars, err, p2p, chan, local_sorted, local_pivots,
                   pivot_buffer, global_pivots, index_matrix, send_recv_matrix,
                   local_result, partial, problem_idx, cur_i, cur_p, result>>

\* A variant of send_matrix: every local element counted as staying.
KeptCounts(r) ==
    [d \in Ranks |-> [p \in Pos |-> IF d = r THEN Len(index_matrix[r][p]) ELSE 0]]

\* Lines 173-179: how many elements process r ships to rank d at position p.
send_matrix(r) ==
    [d \in Ranks |-> [p \in Pos |-> CountIn(index_matrix[r][p], d)]]

\* Lines 173-182: every process counts what it ships to each rank, and the
\* all-to-all leaves on process r, in row s, what rank s ships to r.
Alltoall ==
    /\ op = "sort"
    /\ \A r \in Ranks : pc[r] = "alltoall"
    /\ send_recv_matrix' = [r \in Ranks |->
            [s \in Ranks |-> send_matrix(s)[r]]]
    /\ calls' = Called("Alltoall", None)
    /\ pc' = [r \in Ranks |-> "exchange"]
    /\ UNCHANGED <<inputVars, callVars, tagVars, schedVars, uniqueVars, err, p2p, chan, local_sorted, local_pivots,
                   pivot_buffer, global_pivots, partition_matrix, index_matrix,
                   local_result, partial, problem_idx, cur_i, cur_p, result>>

\* Lines 203 and 214: int(''.join([str(el) for el in idx])), the decimal digits
\* of the index entries put one after the other; int('') of the empty index
\* raises ValueError.
TagOk(idx) == Len(idx) > 0

RECURSIVE Shift10(_)
Shift10(n) == IF n < 10 THEN 10 ELSE 10 * Shift10(n \div 10)

RECURSIVE TagOf(_)
TagOf(idx) ==
    IF Len(idx) = 1 THEN idx[1]
    ELSE TagOf(SubSeq(idx, 1, Len(idx) - 1)) * Shift10(idx[Len(idx)])
         + idx[Len(idx)]

\* The tag of position p, where the index has one (TagOk).
PosTag(p) == IF TagOk(IdxOf(p)) THEN TagOf(IdxOf(p)) ELSE None

\* np.ndenumerate(index_matrix): the local elements in row-major order, each as
\* <<row, position>>.
Cells(r) ==
    [k \in 1 .. LocalLen(r) * NPos |-> <<((k - 1) \div NPos) + 1, ((k - 1) % NPos) + 1>>]

\* The messages process r sends to rank d in the exchange, in the order sent.
Shipped(r, d) ==
    LET mine == SelectSeq(Cells(r), LAMBDA c : index_matrix[r][c[2]][c[1]] = d)
    IN [k \in 1 .. Len(mine) |->
            [tag |-> PosTag(mine[k][2]),
             val |-> local_sorted[r][mine[k][2]][mine[k][1]]]]

\* Lines 200-204: every local element is sent to its destination rank, tagged
\* with its position. The tag of the first element is computed before anything
\* is sent.
SendAll(r) ==
    /\ op = "sort" /\ pc[r] = "exchange"
    /\ IF LocalLen(r) * NPos > 0 /\ ~ TagOk(IdxOf(1))
       THEN /\ Raise(r, "ValueError")
            /\ UNCHANGED <<chan, p2p>>
       ELSE /\ chan' = [c \in Ranks \X Ranks |->
                    IF c[1] = r THEN chan[c] \o Shipped(r, c[2]) ELSE chan[c]]
            /\ p2p' = [p2p EXCEPT ![r] = @ + LocalLen(r) * NPos]
            /\ pc' = [pc EXCEPT ![r] = "recv"]
            /\ UNCHANGED err
    /\ UNCHANGED <<inputVars, callVars, tagVars, schedVars, uniqueVars, calls, sortVars>>

\* The first n messages of queue q that carry tag t, and q without them.
RECURSIVE TakeTagged(_, _, _)
TakeTagged(q, t, n) ==
    IF n = 0 \/ q = <<>> THEN <<>>
    ELSE IF Head(q).tag = t THEN <<Head(q).val>> \o TakeTagged(Tail(q), t, n - 1)
         ELSE TakeTagged(Tail(q), t, n)

RECURSIVE DropTagged(_, _, _)
DropTagged(q, t, n) ==
    IF n = 0 \/ q = <<>> THEN q
    ELSE IF Head(q).tag = t THEN DropTagged(Tail(q), t, n - 1)
         ELSE <<Head(q)>> \o DropTagged(Tail(q), t, n)

RECURSIVE DropAll(_, _, _, _)
DropAll(q, r, s, p) ==
    IF p > NPos THEN q
    ELSE DropAll(DropTagged(q, PosTag(p), send_recv_matrix[r][s][p]), r, s, p + 1)

\* Line 206: recv_amount, what process r receives at position p.
recv_amount(r, p) ==
    SumSeq([s \in 1 .. size |-> send_recv_matrix[r][s - 1][p]])

\* Lines 185, 189-196 and 211-218: at position p the elements arrive by source
\* rank, lowest first, each source's in the order it sent them.
Received(r, p) ==
    Flatten([s \in 1 .. size |->
        TakeTagged(chan[<<s - 1, r>>], PosTag(p), send_recv_matrix[r][s - 1][p])])

\* Line 185: partition_matrix[rank].max(), the rows of local_result.
ResultRows(r) == MaxSeq([p \in Pos |-> partition_matrix[r][r][p]])

\* A variant of PartialRows: partial allocated with the rows of local_result.
RowsOfLocalResult(r) == MaxSeq([p \in Pos |-> partition_matrix[r][r][p]])

\* Line 230: partial has the shape of transposed, a.lshape[axis] rows.
PartialRows(r) == LocalLen(r)

\* Line 231.
copy_size(r) == Min2(LocalLen(r), ResultRows(r))

\* Lines 222-226.
ProblemIdx(r) ==
    [i \in Ranks |-> [p \in Pos |-> partition_matrix[r][i][p] - counts[i]]]

\* The rebalance loop's place: the first <<i, p>> at or after <<i0, p0>> whose
\* entry of pidx is not 0 (the while loop's condition), <<size, 1>> at the end.
RECURSIVE Cursor(_, _, _)
Cursor(pidx, i0, p0) ==
    IF i0 >= size THEN <<size, 1>>
    ELSE IF p0 > NPos THEN Cursor(pidx, i0 + 1, 1)
         ELSE IF pidx[i0][p0] # 0 THEN <<i0, p0>>
              ELSE Cursor(pidx, i0, p0 + 1)

\* Lines 206-232: process r receives what the others ship to it (blocking until
\* it is there), then sets up problem_idx and partial. local_result and partial
\* are torch.empty tensors: what is not written holds anything.
RecvAll(r) ==
    /\ op = "sort" /\ pc[r] = "recv"
    /\ IF (\E p \in Pos : recv_amount(r, p) > 0) /\ ~ TagOk(IdxOf(1))
       THEN /\ Raise(r, "ValueError")
            /\ UNCHANGED <<chan, p2p, local_result, partial, problem_idx, cur_i, cur_p>>
       ELSE /\ \A s \in Ranks, p \in Pos :
                    Len(TakeTagged(chan[<<s, r>>], PosTag(p),
                                   send_recv_matrix[r][s][p]))
                        = send_recv_matrix[r][s][p]
            /\ LET rows == ResultRows(r)
                   len == PartialRows(r)
                   got == [p \in Pos |-> Received(r, p)]
                   holes == {c \in Pos \X (1 .. rows) : c[2] > Len(got[c[1]])}
                   rest == Pos \X (copy_size(r) + 1 .. len)
               IN \E g \in [holes -> Garbage], h \in [rest -> Garbage] :
                    LET lr == [p \in Pos |->
                                [i \in 1 .. rows |->
                                    IF i <= Len(got[p]) THEN got[p][i] ELSE g[<<p, i>>]]]
                    IN /\ local_result' = [local_result EXCEPT ![r] = lr]
                       /\ partial' = [partial EXCEPT ![r] =
                            [p \in Pos |->
                                [i \in 1 .. len |->
                                    IF i <= copy_size(r) THEN lr[p][i] ELSE h[<<p, i>>]]]]
            /\ chan' = [c \in Ranks \X Ranks |->
                    IF c[2] = r THEN DropAll(chan[c], r, c[1], 1) ELSE chan[c]]
            /\ p2p' = [p2p EXCEPT ![r] =
                    @ + SumSeq([p \in Pos |-> recv_amount(r, p)])]
            /\ problem_idx' = [problem_idx EXCEPT ![r] = ProblemIdx(r)]
            /\ cur_i' = [cur_i EXCEPT ![r] = Cursor(ProblemIdx(r), 0, 1)[1]]
            /\ cur_p' = [cur_p EXCEPT ![r] = Cursor(ProblemIdx(r), 0, 1)[2]]
            /\ pc' = [pc EXCEPT ![r] = "rebalance"]
            /\ UNCHANGED err
    /\ UNCHANGED <<inputVars, callVars, tagVars, schedVars, uniqueVars, calls, local_sorted, local_pivots, pivot_buffer,
                   global_pivots, partition_matrix, index_matrix, send_recv_matrix,
                   result>>

\* Lines 270-274 and 309-312: partition_matrix[receiver] is counted up and down
\* again; the sender's entry is left as it is.
BookPartition(pm, sender, receiver, p) ==
    [[pm EXCEPT ![receiver][p] = @ + 1] EXCEPT ![receiver][p] = @ - 1]

\* Lines 271, 273, 309 and 311.
BookProblem(pidx, sender, receiver, p) ==
    [[pidx EXCEPT ![receiver][p] = @ + 1] EXCEPT ![sender][p] = @ - 1]

\* A variant of Partners: the next rank alone is looked at.
NeighbourOnly(pm, i, p) == {s \in {i + 1} \cap Ranks : pm[s][p] > 0}

\* Lines 241 and 280: the partner of rank i at position p, the nearest higher
\* rank whose partition_matrix entry is above 0.
Partners(pm, i, p) == {s \in i + 1 .. size - 1 : pm[s][p] > 0}

Partner(pm, i, p) ==
    CHOOSE s \in Partners(pm, i, p) : \A t \in Partners(pm, i, p) : s <= t

\* Lines 246-250 and 283-286: the row of the element the sender ships: among its
\* first partition_matrix[sender] rows, the smallest towards a lower rank and
\* the largest towards a higher one (the other way round when descending).
SendValues(lr, pm, sender, p) == SubSeq(lr[p], 1, Min2(pm[sender][p], Len(lr[p])))

SenderRow(values, down) ==
    IF down THEN (IF descending THEN ArgMax(values) ELSE ArgMin(values))
    ELSE (IF descending THEN ArgMin(values) ELSE ArgMax(values))

\* Line 257: the row of the sender's last element.
last_idx(r, pidx, sender, p) == LocalLen(r) + pidx[sender][p] - 1

\* Lines 296 and 298: recv_index[axis] < t.shape[axis], for a tensor t of `rows`
\* rows: recv_index is <<pmrow>> followed by the position's index.
RecvIndexFits(pmrow, p, rows) ==
    IF axis = 0 THEN pmrow < rows ELSE p - 1 < NPos

\* Lines 239-241 and 278-280: the transfer process r works out in the pass of
\* the loop it is at, as <<sender, receiver, position>>; none when the
\* partner search finds no rank.
NextTransfer(r) ==
    LET i == cur_i[r]
        p == cur_p[r]
        pm == partition_matrix[r]
    IN IF Partners(pm, i, p) = {} THEN <<>>
       ELSE IF problem_idx[r][i][p] < 0 THEN << <<Partner(pm, i, p), i, p>> >>
            ELSE << <<i, Partner(pm, i, p), p>> >>

\* Lines 234-312, one pass of the while loop on process r: rank i of the loop
\* has val elements too many (val > 0) or -val too few (val < 0) at position p.
\* The sender ships one element to the receiver; every process books it.
RebalStep(r) ==
    /\ op = "sort" /\ pc[r] = "rebalance" /\ cur_i[r] < size
    /\ LET i == cur_i[r]
           p == cur_p[r]
           pidx == problem_idx[r]
           val == pidx[i][p]
           pm == partition_matrix[r]
           lr == local_result[r]
           pt == partial[r]
       IN IF Partners(pm, i, p) = {}
          THEN /\ Raise(r, "StopIteration")
               /\ UNCHANGED <<chan, p2p, local_result, partial, problem_idx,
                              partition_matrix, cur_i, cur_p>>
          ELSE
            LET sender == IF val < 0 THEN Partner(pm, i, p) ELSE i
                receiver == IF val < 0 THEN i ELSE Partner(pm, i, p)
                pidx2 == BookProblem(pidx, sender, receiver, p)
                booked ==
                    /\ problem_idx' = [problem_idx EXCEPT ![r] = pidx2]
                    /\ partition_matrix' = [partition_matrix EXCEPT ![r] =
                            BookPartition(pm, sender, receiver, p)]
                    /\ cur_i' = [cur_i EXCEPT ![r] = Cursor(pidx2, i, p)[1]]
                    /\ cur_p' = [cur_p EXCEPT ![r] = Cursor(pidx2, i, p)[2]]
                    /\ UNCHANGED <<pc, err>>
                failed(e) ==
                    /\ Raise(r, e)
                    /\ UNCHANGED <<local_result, partial, problem_idx,
                                   partition_matrix, cur_i, cur_p>>
            IN CASE r = sender ->
                    LET values == SendValues(lr, pm, sender, p)
                        k == SenderRow(values, val < 0)
                        rows == Len(lr[p])
                        last == last_idx(r, pidx, sender, p)
                        lr2 == [lr EXCEPT ![p][k + 1] = lr[p][PyIndex(last, rows) + 1]]
                    IN IF values = <<>>
                       THEN failed("RuntimeError") /\ UNCHANGED <<chan, p2p>>
                       ELSE /\ chan' = [chan EXCEPT ![<<r, receiver>>] =
                                    Append(@, [tag |-> 0, val |-> lr[p][k + 1]])]
                            /\ p2p' = [p2p EXCEPT ![r] = @ + 1]
                            /\ IF val > 0
                               THEN booked /\ UNCHANGED <<local_result, partial>>
                               ELSE IF ~ PyIndexOk(last, rows)
                                    THEN failed("IndexError")
                                    ELSE /\ booked
                                         /\ local_result' =
                                                [local_result EXCEPT ![r] = lr2]
                                         /\ partial' = [partial EXCEPT ![r] =
                                                IF k < Len(pt[p])
                                                THEN [pt EXCEPT ![p][k + 1] =
                                                        lr2[p][PyIndex(last, rows) + 1]]
                                                ELSE pt]
                 [] r = receiver ->
                    /\ chan[<<sender, r>>] # <<>>
                    /\ chan' = [chan EXCEPT ![<<sender, r>>] = Tail(@)]
                    /\ p2p' = [p2p EXCEPT ![r] = @ + 1]
                    /\ LET m == Head(chan[<<sender, r>>]).val
                           rows == Len(lr[p])
                           prows == Len(pt[p])
                           pmrow == pm[receiver][p]
                       IN IF val < 0
                          THEN IF ~ PyIndexOk(val, prows)
                               THEN failed("IndexError")
                               ELSE /\ booked
                                    /\ partial' = [partial EXCEPT ![r] =
                                            [pt EXCEPT ![p][PyIndex(val, prows) + 1] = m]]
                                    /\ UNCHANGED local_result
                          ELSE IF RecvIndexFits(pmrow, p, prows) /\ ~ (pmrow < prows)
                               THEN failed("IndexError")
                               ELSE
                                 LET pt2 == IF RecvIndexFits(pmrow, p, prows)
                                            THEN [pt EXCEPT ![p][pmrow + 1] = m]
                                            ELSE pt
                                 IN IF RecvIndexFits(pmrow, p, rows)
                                    THEN IF ~ (pmrow < rows)
                                         THEN failed("IndexError")
                                         ELSE /\ booked
                                              /\ partial' = [partial EXCEPT ![r] = pt2]
                                              /\ local_result' = [local_result EXCEPT ![r] =
                                                    [lr EXCEPT ![p][pmrow + 1] = m]]
                                    ELSE IF ~ (pmrow < rows + val)
                                         THEN failed("IndexError")
                                         ELSE \E g \in [Pos \X (rows + 1 .. rows + val)
                                                            -> Garbage] :
                                                /\ booked
                                                /\ partial' = [partial EXCEPT ![r] = pt2]
                                                /\ local_result' = [local_result EXCEPT ![r] =
                                                    [q \in Pos |->
                                                      [j \in 1 .. rows + val |->
                                                        IF q = p /\ j = pmrow + 1 THEN m
                                                        ELSE IF j <= rows THEN lr[q][j]
                                                             ELSE g[<<q, j>>]]]]
                 [] OTHER ->
                    /\ booked
                    /\ UNCHANGED <<chan, p2p, local_result, partial>>
    /\ transfers' = [transfers EXCEPT ![r] = @ \o NextTransfer(r)]
    /\ UNCHANGED <<inputVars, callVars, tagVars, uniqueVars, calls, local_sorted, local_pivots, pivot_buffer,
                   global_pivots, index_matrix, send_recv_matrix, result>>

\* Lines 313-326: the loop is over; partial is sorted along dimension 0,
\* transposed back and returned as the local tensor of the result.
Finalize(r) ==
    /\ op = "sort" /\ pc[r] = "rebalance" /\ cur_i[r] >= size
    /\ LET ordered == [p \in Pos |-> TorchSort(partial[r][p], descending)]
       IN /\ partial' = [partial EXCEPT ![r] = ordered]
          /\ result' = [result EXCEPT ![r] =
                TransposedBack(ordered, Len(ordered[1]), NPos, axis)]
    /\ pc' = [pc EXCEPT ![r] = "done"]
    /\ UNCHANGED <<inputVars, callVars, tagVars, schedVars, uniqueVars, err, calls, p2p, chan, local_sorted, local_pivots,
                   pivot_buffer, global_pivots, partition_matrix, index_matrix,
                   send_recv_matrix, local_result, problem_idx, cur_i, cur_p>>

Next ==
    \/ \E r \in Ranks : FastPath(r)
    \/ \E r \in Ranks : LocalSort(r)
    \/ Gatherv
    \/ GlobalPivotCompute
    \/ Bcast
    \/ \E r \in Ranks : Classify(r)
    \/ Allreduce
    \/ Alltoall
    \/ \E r \in Ranks : SendAll(r)
    \/ \E r \in Ranks : RecvAll(r)
    \/ \E r \in Ranks : RebalStep(r)
    \/ \E r \in Ranks : Finalize(r)

Spec == Init /\ [][Next]_vars

\* The distributed path alone, on longer arrays: two processes sort, in
\* ascending order, a one-column array of up to LongLen rows split along
\* axis 0, or one of 2 * LongLen rows that is already in ascending order.
LongInit ==
    /\ op = "sort"
    /\ size = 2 /\ ndim = 2 /\ split = 0 /\ axis = 0
    /\ descending = FALSE
    /\ \/ /\ gshape \in {<<n, 1>> : n \in 0 .. LongLen}
          /\ garr \in Arrays(gshape)
       \/ /\ gshape = <<2 * LongLen, 1>>
          /\ \E i \in 0 .. 2 * LongLen : \E j \in i .. 2 * LongLen :
                garr = [k \in 1 .. 2 * LongLen |->
                          <<Min2(MaxVal, (IF k > i THEN 1 ELSE 0)
                                         + (IF k > j THEN 1 ELSE 0))>>]
    /\ a = [r \in Ranks |-> LocalOf(garr, r)]
    /\ sorted = FALSE /\ return_inverse = FALSE
    /\ InitComm
    /\ InitCallVars
    /\ InitTagVars
    /\ InitSortVars
    /\ InitUniqueVars

LongNext ==
    \/ \E r \in Ranks : LocalSort(r)
    \/ Gatherv
    \/ GlobalPivotCompute
    \/ Bcast
    \/ \E r \in Ranks : Classify(r)
    \/ Allreduce
    \/ Alltoall
    \/ \E r \in Ranks : SendAll(r)
    \/ \E r \in Ranks : RecvAll(r)
    \/ \E r \in Ranks : RebalStep(r)
    \/ \E r \in Ranks : Finalize(r)

SpecLong == LongInit /\ [][LongNext]_vars

\* The distributed path on arrays of one row split along axis 1: two processes
\* sort, in ascending order along axis 1, a row of up to LongLen entries, or
\* WideProcs processes a row of up to LongLen entries from 0 .. WideVal.
WideInit ==
    /\ op = "sort"
    /\ ndim = 2 /\ split = 1 /\ axis = 1
    /\ descending = FALSE
    /\ gshape \in {<<1, n>> : n \in 0 .. LongLen}
    /\ \/ size = 2 /\ garr \in Arrays(gshape)
       \/ /\ size = WideProcs
          /\ garr \in {g \in Arrays(gshape) :
                        \A k \in 1 .. gshape[2] : g[1][k] <= WideVal}
    /\ a = [r \in Ranks |-> LocalOf(garr, r)]
    /\ sorted = FALSE /\ return_inverse = FALSE
    /\ InitComm
    /\ InitCallVars
    /\ InitTagVars
    /\ InitSortVars
    /\ InitUniqueVars

SpecWide == WideInit /\ [][LongNext]_vars

\* ------------------------------------------------------- the tags alone
\* The positions along the non-split dimensions of an array that has one such
\* dimension, of MaxIdxB + 1 entries, or two, of MaxIdxA + 1 and MaxIdxB + 1.
TagShapes == {<<MaxIdxB + 1>>, <<MaxIdxA + 1, MaxIdxB + 1>>}

PositionsOf(sh) ==
    IF Len(sh) = 1 THEN {<<j>> : j \in 0 .. sh[1] - 1}
    ELSE {<<i, j>> : i \in 0 .. sh[1] - 1, j \in 0 .. sh[2] - 1}

\* A process is about to send the element at index idx_send of its
\* index_matrix (the row first), and a process to post a receive for position
\* idx_recv of the same array.
TagInit ==
    /\ op = "tag"
    /\ size = 1 /\ split = 0 /\ axis = 0 /\ descending = FALSE
    /\ sorted = FALSE /\ return_inverse = FALSE
    /\ \E sh \in TagShapes :
        /\ ndim = Len(sh) + 1
        /\ gshape = <<2>> \o sh
        /\ idx_send \in {<<row>> \o pos : row \in 0 .. 1, pos \in PositionsOf(sh)}
        /\ idx_recv \in PositionsOf(sh)
    /\ garr = <<>>
    /\ a = [r \in Ranks |-> <<>>]
    /\ tag_send = None /\ tag_recv = None
    /\ InitComm
    /\ InitCallVars
    /\ InitSortVars
    /\ InitUniqueVars

\* Line 203: the tag of a Send, from the index without the row.
SendTag ==
    /\ op = "tag" /\ tag_send = None
    /\ tag_send' = TagOf(Tail(idx_send))
    /\ UNCHANGED <<inputVars, callVars, schedVars, idx_send, idx_recv, tag_recv, pc, err,
                   calls, p2p, chan, sortVars, uniqueVars>>

\* Line 214: the tag of a Recv, from the position.
RecvTag ==
    /\ op = "tag" /\ tag_recv = None
    /\ tag_recv' = TagOf(idx_recv)
    /\ UNCHANGED <<inputVars, callVars, schedVars, idx_send, idx_recv, tag_send, pc, err,
                   calls, p2p, chan, sortVars, uniqueVars>>

TagNext == SendTag \/ RecvTag

SpecTag == TagInit /\ [][TagNext]_vars

\* --------------------------------------------- the exchange, sends blocking
\* Lines 200-204: the Sends of process r in the order it issues them, one per
\* local element in row-major order.
SendOrder(r) ==
    [k \in 1 .. Len(Cells(r)) |->
        [dest |-> index_matrix[r][Cells(r)[k][2]][Cells(r)[k][1]],
         tag |-> PosTag(Cells(r)[k][2]),
         val |-> local_sorted[r][Cells(r)[k][2]][Cells(r)[k][1]]]]

\* Lines 192-196 and 211-216: the Recvs of process r in the order it posts
\* them: position by position, at each position the sources in rank order.
RecvOrder(r) ==
    Flatten([p \in Pos |->
        Flatten([s \in 1 .. size |->
            [k \in 1 .. send_recv_matrix[r][s - 1][p] |-> <<s - 1, PosTag(p)>>]])])

\* The Recvs of process r that have completed while it is in the loop of
\* lines 211-218.
Delivered(r) == SumSeq([s \in 1 .. size |-> Len(chan[<<s - 1, r>>])])

\* Line 204 when Send returns only once the matching Recv is posted: process s
\* completes its next Send when the destination is in its receive loop and the
\* Recv it has posted names s and the tag of the message.
SyncSend(s) ==
    /\ op = "sort" /\ pc[s] = "exchange"
    /\ p2p[s] < Len(SendOrder(s))
    /\ LET m == SendOrder(s)[p2p[s] + 1]
           d == m.dest
       IN /\ pc[d] = "recv"
          /\ Delivered(d) < Len(RecvOrder(d))
          /\ RecvOrder(d)[Delivered(d) + 1] = <<s, m.tag>>
          /\ chan' = [chan EXCEPT ![<<s, d>>] =
                        Append(@, [tag |-> m.tag, val |-> m.val])]
    /\ p2p' = [p2p EXCEPT ![s] = @ + 1]
    /\ UNCHANGED <<inputVars, callVars, tagVars, schedVars, uniqueVars, sortVars, pc, err,
                   calls>>

\* Line 206: the loop of line 200 is over, process s goes on to receive.
SyncSendDone(s) ==
    /\ op = "sort" /\ pc[s] = "exchange"
    /\ p2p[s] = Len(SendOrder(s))
    /\ pc' = [pc EXCEPT ![s] = "recv"]
    /\ UNCHANGED <<inputVars, callVars, tagVars, schedVars, uniqueVars, sortVars, err,
                   calls, p2p, chan>>

\* The distributed sort of a two-dimensional array up to the end of the
\* exchange, sends blocking.
SyncInit ==
    /\ op = "sort"
    /\ InitInput
    /\ ndim = 2 /\ split # None /\ axis = split
    /\ descending \in BOOLEAN
    /\ sorted = FALSE /\ return_inverse = FALSE
    /\ InitComm
    /\ InitCallVars
    /\ InitTagVars
    /\ InitSortVars
    /\ InitUniqueVars

SyncNext ==
    \/ \E r \in Ranks : LocalSort(r)
    \/ Gatherv
    \/ GlobalPivotCompute
    \/ Bcast
    \/ \E r \in Ranks : Classify(r)
    \/ Allreduce
    \/ Alltoall
    \/ \E r \in Ranks : SyncSend(r)
    \/ \E r \in Ranks : SyncSendDone(r)
    \/ \E r \in Ranks : RecvAll(r)

SpecSync == SyncInit /\ [][SyncNext]_vars

\* ------------------------------------------- the rebalance, sends blocking
\* Lines 255 and 289 when Send returns only once the matching Recv is posted:
\* a pass in which process r is the sender goes on when the receiver is in the
\* loop, at a pass in which it receives from r, with nothing from r left to
\* take; every other pass is as in RebalStep.
SyncRebalStep(r) ==
    /\ RebalStep(r)
    /\ (NextTransfer(r) # <<>> /\ NextTransfer(r)[1][1] = r) =>
            LET d == NextTransfer(r)[1][2]
            IN /\ d # r
               /\ pc[d] = "rebalance" /\ cur_i[d] < size
               /\ NextTransfer(d) # <<>>
               /\ NextTransfer(d)[1][1] = r /\ NextTransfer(d)[1][2] = d
               /\ chan[<<r, d>>] = <<>>

\* The sorts of Spec, SpecLong and SpecWide.
RendezvousInit == Init \/ LongInit \/ WideInit

RendezvousNext ==
    \/ \E r \in Ranks : FastPath(r)
    \/ \E r \in Ranks : LocalSort(r)
    \/ Gatherv
    \/ GlobalPivotCompute
    \/ Bcast
    \/ \E r \in Ranks : Classify(r)
    \/ Allreduce
    \/ Alltoall
    \/ \E r \in Ranks : SendAll(r)
    \/ \E r \in Ranks : RecvAll(r)
    \/ \E r \in Ranks : SyncRebalStep(r)
    \/ \E r \in Ranks : Finalize(r)

\* The exchange with buffered sends, the rebalance loop with blocking ones.
SpecRendezvous == RendezvousInit /\ [][RendezvousNext]_vars

\* ------------------------------------------------------------------ unique
\* t.transpose(0, ax) of a tensor t of the given shape.
Transpose0(t, shape, ax) ==
    IF Len(shape) = 1 \/ ax = 0 THEN t
    ELSE [j \in 1 .. shape[2] |-> [i \in 1 .. shape[1] |-> t[i][j]]]

\* The shape of t.transpose(0, ax).
TransposedShape(shape, ax) ==
    IF Len(shape) = 1 \/ ax = 0 THEN shape ELSE <<shape[2], shape[1]>>

\* t.flatten(): the elements in row-major order.
FlatOf(t, shape) == IF Len(shape) = 1 THEN t ELSE Flatten(t)

\* f.reshape(shape) of a one-dimensional f.
Unflatten(f, shape) ==
    IF Len(shape) = 1 THEN f
    ELSE [i \in 1 .. shape[1] |-> [j \in 1 .. shape[2] |-> f[(i - 1) * shape[2] + j]]]

\* Line 489: the rows of t along ax, each the tuple of its values at the other
\* positions.
RowsAlong(t, shape, ax) ==
    [i \in 1 .. shape[ax + 1] |->
        [p \in 1 .. NPosOf(shape, ax) |->
            IF Len(shape) = 1 THEN t[i] ELSE IF ax = 0 THEN t[i][p] ELSE t[p][i]]]

\* What torch.unique tells apart in tensor t: its elements in flattened order
\* when no axis is given (dim=None), else its rows along the axis (dim=0 after
\* the transpose of line 489). An element is held as a tuple of one value.
Entries(t, shape) ==
    IF axis = None
    THEN [k \in 1 .. Len(FlatOf(t, shape)) |-> <<FlatOf(t, shape)[k]>>]
    ELSE RowsAlong(t, shape, axis)

\* The ascending order of torch.unique: by value, rows lexicographically.
RECURSIVE LexLess(_, _)
LexLess(x, y) ==
    IF x = <<>> \/ y = <<>> THEN FALSE
    ELSE \/ Head(x) < Head(y)
         \/ Head(x) = Head(y) /\ LexLess(Tail(x), Tail(y))

Distinct(es) == {es[k] : k \in 1 .. Len(es)}

\* torch.unique(es, sorted=srt): the distinct entries of es, each once, in
\* ascending order when srt and in any order otherwise.
TorchUnique(es, srt) ==
    {u \in [1 .. Cardinality(Distinct(es)) -> Distinct(es)] :
        /\ \A i, j \in 1 .. Cardinality(Distinct(es)) : i # j => u[i] # u[j]
        /\ srt => \A i \in 1 .. Cardinality(Distinct(es)) - 1 : LexLess(u[i], u[i + 1])}

\* torch.unique's return_inverse: for each entry of es its index in u.
InverseOf(es, u) ==
    [k \in 1 .. Len(es) |-> (CHOOSE i \in 1 .. Len(u) : u[i] = es[k]) - 1]

\* The inverse tensor has the shape of the input when no axis is given and is
\* one-dimensional otherwise.
InverseShape(shape) == IF axis = None THEN shape ELSE <<shape[axis + 1]>>

\* Lines 479-481: the array is not split; torch.unique's result is returned.
\* torch.unique of an empty tensor throws (line 494) or returns nothing,
\* depending on the build.
UniqueTrivial(r) ==
    /\ op = "unique" /\ pc[r] = "start" /\ split = None
    /\ LET es == Entries(a[r], gshape)
       IN \/ /\ es = <<>>
             /\ Raise(r, "RuntimeError")
             /\ UNCHANGED <<gres, inverse_indices>>
          \/ \E u \in TorchUnique(es, sorted) :
                /\ gres' = [gres EXCEPT ![r] = u]
                /\ inverse_indices' = [inverse_indices EXCEPT ![r] =
                        IF return_inverse
                        THEN Unflatten(InverseOf(es, u), InverseShape(gshape))
                        ELSE <<>>]
                /\ pc' = [pc EXCEPT ![r] = "done"]
                /\ UNCHANGED err
    /\ UNCHANGED <<inputVars, callVars, tagVars, schedVars, sortVars, calls, p2p, chan, lres, inverse_pos,
                   uniques_buf, gres_buf, inverse_buf, max_pos, indices, g_inverse>>

\* Lines 483-510: the distinct entries of the local data and the index of each
\* local entry among them; nothing when the process holds no data.
UniqueLocal(r) ==
    /\ op = "unique" /\ pc[r] = "start" /\ split # None
    /\ LET es == Entries(a[r], lshape(r))
       IN IF lshape(r)[split + 1] = 0
          THEN /\ lres' = [lres EXCEPT ![r] = <<>>]
               /\ inverse_pos' = [inverse_pos EXCEPT ![r] =
                    IF axis = None THEN Unflatten(<<>>, lshape(r)) ELSE <<>>]
          ELSE \E u \in TorchUnique(es, sorted) :
                /\ lres' = [lres EXCEPT ![r] = u]
                /\ inverse_pos' = [inverse_pos EXCEPT ![r] =
                    Unflatten(InverseOf(es, u), InverseShape(lshape(r)))]
    /\ pc' = [pc EXCEPT ![r] = "allgather"]
    /\ UNCHANGED <<inputVars, callVars, tagVars, schedVars, sortVars, err, calls, p2p, chan, uniques_buf,
                   gres_buf, inverse_buf, max_pos, indices, gres, g_inverse,
                   inverse_indices>>

\* unique works on the split axis itself (lines 517-600) or across it
\* (lines 602-625).
CaseA == axis = None \/ axis = split

\* Line 512: every process learns the others' numbers of distinct entries.
UAllgather ==
    /\ op = "unique"
    /\ \A r \in Ranks : pc[r] = "allgather"
    /\ uniques_buf' = [r \in Ranks |-> Len(lres[r])]
    /\ calls' = Called("Allgather", None)
    /\ pc' = [r \in Ranks |-> IF CaseA THEN "allgatherv" ELSE "coordinate"]
    /\ UNCHANGED <<inputVars, callVars, tagVars, schedVars, sortVars, err, p2p, chan, lres, inverse_pos,
                   gres_buf, inverse_buf, max_pos, indices, gres, g_inverse,
                   inverse_indices>>

\* Lines 532-533: where each process's distinct entries start in gres_buf.
displs == [r \in Ranks |-> SumSeq([q \in 1 .. r |-> uniques_buf[q - 1]])]

\* comm.Allgatherv: the processes' buffers one after the other along
\* dimension 0, in rank order.
Allgathered(parts) == Flatten([q \in 1 .. size |-> parts[q - 1]])

\* Lines 519-535: the processes' distinct entries, gathered in rank order.
UAllgatherv ==
    /\ op = "unique"
    /\ \A r \in Ranks : pc[r] = "allgatherv"
    /\ gres_buf' = Allgathered(lres)
    /\ calls' = Called("Allgatherv", None)
    /\ pc' = [r \in Ranks |-> IF return_inverse THEN "inverse" ELSE "second"]
    /\ UNCHANGED <<inputVars, callVars, tagVars, schedVars, sortVars, err, p2p, chan, lres, inverse_pos,
                   uniques_buf, inverse_buf, max_pos, indices, gres, g_inverse,
                   inverse_indices>>

\* Lines 539-546: the chunk lengths along the split axis and their offsets.
inverse_counts ==
    [r \in Ranks |->
        (gshape[split + 1] \div size) + (IF r < gshape[split + 1] % size THEN 1 ELSE 0)]

inverse_displs == [r \in Ranks |-> SumSeq([q \in 1 .. r |-> inverse_counts[q - 1]])]

\* Lines 547-549: the shape of inverse_buf is that of inverse_pos with the
\* global length at a.split; inverse_pos of a call with an axis has one
\* dimension only, and setting dimension 1 of it raises IndexError.
UInversePrep(r) ==
    /\ op = "unique" /\ pc[r] = "inverse"
    /\ IF split + 1 > Len(InverseShape(gshape))
       THEN Raise(r, "IndexError")
       ELSE /\ pc' = [pc EXCEPT ![r] = "inverse_gather"]
            /\ UNCHANGED err
    /\ UNCHANGED <<inputVars, callVars, tagVars, schedVars, sortVars, uniqueVars, calls, p2p, chan>>

\* The shape of process r's inverse_pos.
InversePosShape(r) == InverseShape(lshape(r))

\* Lines 552-555: the processes' inverse_pos, gathered along the split axis:
\* transposed, gathered along dimension 0 in rank order and transposed back.
UInverseGatherv ==
    /\ op = "unique"
    /\ \A r \in Ranks : pc[r] = "inverse_gather"
    /\ inverse_buf' =
            Transpose0(
                Allgathered([q \in Ranks |->
                    Transpose0(inverse_pos[q], InversePosShape(q), split)]),
                TransposedShape(InverseShape(gshape), split), split)
    /\ calls' = Called("Allgatherv", None)
    /\ pc' = [r \in Ranks |-> "second"]
    /\ UNCHANGED <<inputVars, callVars, tagVars, schedVars, sortVars, err, p2p, chan, lres, inverse_pos,
                   uniques_buf, gres_buf, max_pos, indices, gres, g_inverse,
                   inverse_indices>>

\* Lines 565-568.
elements_per_layer == IF ndim = 1 THEN 1 ELSE gshape[2 - split]

\* A variant of local_elements: the offsets in units of the split axis.
AxisLengthUnits(c) == inverse_displs[c + 1]

\* Line 571: the flattened offset at which the data of the process after the
\* c-th starts (the last entry of the list, float('inf'), is never reached).
local_elements(c) == inverse_displs[c + 1] * elements_per_layer

\* Line 576: inverse_buf with the split axis first, flattened.
flatten_inverse ==
    FlatOf(Transpose0(inverse_buf, gshape, split), TransposedShape(gshape, split))

\* Lines 579-583: cur_displ when element num (from 0) is handled; it goes up by
\* at most one per element.
RECURSIVE cur_displ(_)
cur_displ(num) ==
    LET c == IF num = 0 THEN 0 ELSE cur_displ(num - 1)
    IN IF c < size - 1 /\ num >= local_elements(c) THEN c + 1 ELSE c

\* Line 584.
InverseIndex(num) == flatten_inverse[num + 1] + displs[cur_displ(num)]

\* Lines 596-598: the slice of inverse_buf that entry k (from 0) lies in: the
\* last step whose begin is not after k.
StepOf(k) == CHOOSE i \in Ranks :
    /\ displs[i] <= k
    /\ \A j \in Ranks : displs[j] <= k => j <= i

\* Line 600: begin + x.
StepIndex(k) == displs[StepOf(k)] + inverse_buf[k + 1]

\* A variant of SecondUnique: the gathered entries are returned as they are.
GatheredAsIs(buf, srt) == {buf}

\* Line 558: torch.unique of the gathered entries.
SecondUnique(buf, srt) == TorchUnique(buf, srt)

\* Lines 585 and 600: g_inverse, of n entries, is indexed past its end.
InverseFails(n) ==
    IF axis = None
    THEN \E num \in 0 .. Len(flatten_inverse) - 1 : InverseIndex(num) >= n
    ELSE \E k \in 0 .. Len(inverse_buf) - 1 : StepIndex(k) >= n

\* Lines 563-589: the inverse indices of a call without axis. Every flattened
\* element is looked up in g_inverse at its local index plus the offset of its
\* process in gres_buf; the list is brought back to the array's shape.
InverseNoAxis(gi) ==
    Transpose0(
        Unflatten([k \in 1 .. Len(flatten_inverse) |-> gi[InverseIndex(k - 1) + 1]],
                  TransposedShape(gshape, split)),
        TransposedShape(gshape, split), split)

\* Lines 592-600: the inverse indices of a call with an axis.
InverseAxis(gi) == [k \in 1 .. Len(inverse_buf) |-> gi[StepIndex(k - 1) + 1]]

\* Lines 557-600 and 627-639: the second unique over the gathered entries, the
\* inverse indices when asked for, and the return.
USecondPass(r) ==
    /\ op = "unique" /\ pc[r] = "second"
    /\ \/ /\ gres_buf = <<>>
          /\ Raise(r, "RuntimeError")
          /\ UNCHANGED <<gres, g_inverse, inverse_indices>>
       \/ \E u \in SecondUnique(gres_buf, sorted) :
            LET gi == InverseOf(gres_buf, u)
                inv == IF axis = None THEN InverseNoAxis(gi) ELSE InverseAxis(gi)
            IN IF return_inverse /\ InverseFails(Len(gi))
               THEN /\ Raise(r, "IndexError")
                    /\ UNCHANGED <<gres, g_inverse, inverse_indices>>
               ELSE /\ gres' = [gres EXCEPT ![r] = u]
                    /\ g_inverse' = [g_inverse EXCEPT ![r] =
                            IF return_inverse THEN gi ELSE <<>>]
                    /\ inverse_indices' = [inverse_indices EXCEPT ![r] =
                            IF return_inverse THEN inv ELSE <<>>]
                    /\ pc' = [pc EXCEPT ![r] = "done"]
                    /\ UNCHANGED err
    /\ UNCHANGED <<inputVars, callVars, tagVars, schedVars, sortVars, calls, p2p, chan, lres, inverse_pos,
                   uniques_buf, gres_buf, inverse_buf, max_pos, indices>>

\* Line 603: uniques_buf.max(0), the ranks with the most distinct entries.
MaxRanks == {c \in Ranks : \A r \in Ranks : uniques_buf[r] <= uniques_buf[c]}

RECURSIVE AscendingSeq(_)
AscendingSeq(S) ==
    IF S = {} THEN <<>>
    ELSE LET m == CHOOSE x \in S : \A y \in S : x <= y
         IN <<m>> \o AscendingSeq(S \ {m})

\* Lines 608-617: for each distinct value of pos_list the index of its first
\* occurrence, until max_uniques of them are found.
FirstIndices(pos_list, max_uniques) ==
    LET first == AscendingSeq({k - 1 : k \in {k \in 1 .. Len(pos_list) :
                        \A j \in 1 .. k - 1 : pos_list[j] # pos_list[k]}})
    IN SubSeq(first, 1, Min2(Len(first), max_uniques))

\* Lines 603-621: the process with the most distinct rows picks the indices of
\* the first occurrence of each of its rows and broadcasts them.
UCoordinate ==
    /\ op = "unique"
    /\ \A r \in Ranks : pc[r] = "coordinate"
    /\ \E c \in MaxRanks :
            /\ max_pos' = c
            /\ indices' = FirstIndices(inverse_pos[c], uniques_buf[c])
    /\ calls' = Called("Bcast", max_pos')
    /\ pc' = [r \in Ranks |-> "extract"]
    /\ UNCHANGED <<inputVars, callVars, tagVars, schedVars, sortVars, err, p2p, chan, lres, inverse_pos,
                   uniques_buf, gres_buf, inverse_buf, gres, g_inverse,
                   inverse_indices>>

\* Lines 622-639: every process takes the rows at the broadcast indices from
\* its own data; the indices are returned as inverse_indices.
UExtract(r) ==
    /\ op = "unique" /\ pc[r] = "extract"
    /\ gres' = [gres EXCEPT ![r] =
            [k \in 1 .. Len(indices) |->
                Entries(a[r], lshape(r))[indices[k] + 1]]]
    /\ inverse_indices' = [inverse_indices EXCEPT ![r] = indices]
    /\ pc' = [pc EXCEPT ![r] = "done"]
    /\ UNCHANGED <<inputVars, callVars, tagVars, schedVars, sortVars, err, calls, p2p, chan, lres, inverse_pos,
                   uniques_buf, gres_buf, inverse_buf, max_pos, indices, g_inverse>>

\* The local data of process r of an array g of shape sh split along sp over sz
\* processes (result.resplit, factories.array): contiguous chunks, the whole
\* array when it is not split.
ChunkOf(g, sh, sp, sz, r) ==
    IF sp = None THEN g
    ELSE LET lo == ChunkDispl(sh[sp + 1], sz, r) + 1
             hi == ChunkDispl(sh[sp + 1], sz, r) + ChunkCount(sh[sp + 1], sz, r)
         IN IF sp = 0 THEN SubSeq(g, lo, hi)
            ELSE [i \in 1 .. sh[1] |-> SubSeq(g[i], lo, hi)]

\* A variant of ResultArray: the first row of the result in the place of every
\* row.
FirstRowOnly(rows, nd, ax, npos) ==
    IF nd = 1 THEN [k \in 1 .. Len(rows) |-> rows[1][1]]
    ELSE IF ax = 0 THEN [k \in 1 .. Len(rows) |-> rows[1]]
         ELSE [p \in 1 .. npos |-> [i \in 1 .. Len(rows) |-> rows[1][p]]]

\* Line 629: the rows of a result as an array of nd dimensions with the rows
\* along ax and npos entries along the other dimension.
ResultArray(rows, nd, ax, npos) ==
    IF nd = 1 THEN [k \in 1 .. Len(rows) |-> rows[k][1]]
    ELSE IF ax = 0 THEN rows
         ELSE [p \in 1 .. npos |-> [i \in 1 .. Len(rows) |-> rows[i][p]]]

\* Lines 627-639, and unique called on what they return: without axis the
\* result is a one-dimensional array that is not split, along the split axis it
\* is split along that axis again, and across the split axis every process
\* keeps its part of each row.
UniqueAgain ==
    /\ op = "unique" /\ ncall = 1 /\ split # None
    /\ sorted /\ ~ return_inverse
    /\ \A r \in Ranks : pc[r] = "done"
    /\ LET rows == IF CaseA THEN gres[0]
                   ELSE [k \in 1 .. Len(indices) |->
                            Flatten([q \in 1 .. size |-> gres[q - 1][k]])]
           nd == IF axis = None THEN 1 ELSE ndim
           sp == IF axis = None THEN None ELSE split
           sh == IF axis = None THEN <<Len(rows)>>
                 ELSE [k \in 1 .. ndim |->
                        IF k = axis + 1 THEN Len(rows) ELSE gshape[k]]
           g == ResultArray(rows, nd, IF axis = None THEN 0 ELSE axis,
                            IF nd = 1 THEN 1 ELSE gshape[2 - axis])
       IN /\ first_res' = rows
          /\ ndim' = nd /\ gshape' = sh /\ split' = sp /\ garr' = g
          /\ a' = [r \in Ranks |-> ChunkOf(g, sh, sp, size, r)]
    /\ ncall' = 2
    /\ pc' = [r \in Ranks |-> "start"]
    /\ calls' = [r \in Ranks |-> <<>>]
    /\ lres' = [r \in Ranks |-> <<>>]
    /\ inverse_pos' = [r \in Ranks |-> <<>>]
    /\ uniques_buf' = <<>>
    /\ gres_buf' = <<>>
    /\ max_pos' = 0
    /\ indices' = <<>>
    /\ gres' = [r \in Ranks |-> <<>>]
    /\ UNCHANGED <<op, size, axis, descending, sorted, return_inverse, tagVars, schedVars,
                   sortVars, err, p2p, chan, inverse_buf, g_inverse,
                   inverse_indices>>

\* The arrays unique is called on: every dimension but the split one has at
\* least one entry.
UShapes ==
    {<<n>> : n \in 0 .. MaxUCells}
        \cup {sh \in (0 .. MaxUCells) \X (0 .. MaxUCells) : sh[1] * sh[2] <= MaxUCells}

UShapeOk(sh, sp) ==
    /\ Len(sh) = ndim
    /\ \A k \in 1 .. ndim : k # sp + 1 => sh[k] >= 1

UArrays(sh) ==
    IF Len(sh) = 1 THEN [1 .. sh[1] -> 0 .. MaxUVal]
    ELSE [1 .. sh[1] -> [1 .. sh[2] -> 0 .. MaxUVal]]

UniqueInit ==
    /\ op = "unique"
    /\ descending = FALSE
    /\ sorted \in BOOLEAN /\ return_inverse \in BOOLEAN
    /\ \/ /\ size \in 1 .. MaxProcs
          /\ ndim \in {1, 2}
          /\ split \in {None} \cup (0 .. ndim - 1)
          /\ axis \in {None} \cup (0 .. ndim - 1)
          /\ gshape \in {sh \in UShapes : UShapeOk(sh, split)}
       \/ /\ size = 2 /\ ndim = 2
          /\ split \in {0, 1} /\ axis = 1 - split
          /\ gshape = [k \in 1 .. 2 |-> IF k = axis + 1 THEN LongRows ELSE 2]
    /\ garr \in UArrays(gshape)
    /\ a = [r \in Ranks |-> LocalOf(garr, r)]
    /\ InitComm
    /\ InitCallVars
    /\ InitTagVars
    /\ InitSortVars
    /\ InitUniqueVars

UniqueNext ==
    \/ \E r \in Ranks : UniqueTrivial(r)
    \/ \E r \in Ranks : UniqueLocal(r)
    \/ UAllgather
    \/ UAllgatherv
    \/ \E r \in Ranks : UInversePrep(r)
    \/ UInverseGatherv
    \/ \E r \in Ranks : USecondPass(r)
    \/ UCoordinate
    \/ \E r \in Ranks : UExtract(r)
    \/ UniqueAgain

SpecUnique == UniqueInit /\ [][UniqueNext]_vars

\* ------------------------------------------------------------------ claims
\* The call is over on every process, with no exception.
AllDone == \A r \in Ranks : pc[r] = "done"

\* The values of the input along the sort axis at position p, in global order.
InputAlong(p) == Transposed(garr, gshape, axis)[p]

\* The values process r returns along the sort axis at position p.
ResultAlong(r, p) ==
    IF ndim = 1 THEN result[r]
    ELSE IF axis = 0 THEN [i \in 1 .. Len(result[r]) |-> result[r][i][p]]
         ELSE result[r][p]

\* The processes' results along the sort axis at position p, in rank order.
OutputAlong(p) == Flatten([r \in 1 .. size |-> ResultAlong(r - 1, p)])

SameBag(s, t) ==
    /\ Len(s) = Len(t)
    /\ \A v \in {s[k] : k \in 1 .. Len(s)} \cup {t[k] : k \in 1 .. Len(t)} :
            CountIn(s, v) = CountIn(t, v)

IsOrdered(s) == \A k \in 1 .. Len(s) - 1 : Before(s[k], s[k + 1], descending)

\* C1: after a distributed sort has completed on every process, the values the
\* processes hold at each position are a permutation of the input's values there.
C1_Permutation ==
    (IsDistributed /\ AllDone) => \A p \in Pos : SameBag(OutputAlong(p), InputAlong(p))

\* C2: after a distributed sort has completed on every process, the results in
\* rank order are in the requested order at each position.
C2_Order ==
    (IsDistributed /\ AllDone) => \A p \in Pos : IsOrdered(OutputAlong(p))

\* C3: a process that returns from the distributed sort returns a local result
\* with exactly its original chunk length along the split axis, at every
\* position, whatever the chunk lengths and the pivot classification were.
C3_LocalLength ==
    \A r \in Ranks :
        (IsDistributed /\ pc[r] = "done") =>
            \A p \in Pos : Len(ResultAlong(r, p)) = counts[r]

\* A distributed sort has completed with a process of chunk length zero and a
\* classification that gave some process another number of elements than its
\* chunk length.
C3_Witness ==
    /\ IsDistributed /\ AllDone
    /\ \E r \in Ranks : counts[r] = 0
    /\ \E r \in Ranks, p \in Pos : partition_matrix[r][r][p] # counts[r]

\* The entries of the whole input, and a sequence without repetition.
GlobalEntries == Entries(garr, gshape)

NoTwice(u) == \A i, j \in 1 .. Len(u) : i # j => u[i] # u[j]

ResultRowsB ==
    [k \in 1 .. Len(indices) |-> Flatten([q \in 1 .. size |-> gres[q - 1][k]])]

\* Every process holds a part of the array.
AllHoldData == split # None /\ gshape[split + 1] >= size

\* C5: unique along an axis that is not the split axis, every process holding
\* a part of the array: the result holds every distinct row of the input, and
\* none twice.
C5_CaseB ==
    (op = "unique" /\ AllHoldData /\ ~ CaseA /\ AllDone) =>
        /\ Distinct(ResultRowsB) = Distinct(GlobalEntries)
        /\ NoTwice(ResultRowsB)

\* Tensor t has the given shape.
HasShape(t, shape) ==
    /\ Len(t) = shape[1]
    /\ Len(shape) = 2 => \A i \in 1 .. shape[1] : Len(t[i]) = shape[2]

\* inv, of the shape of the input, leads from every position of the input to
\* the entry of u that equals the input there.
LeadsBack(inv, u) ==
    IF ndim = 1
    THEN \A i \in 1 .. gshape[1] :
            /\ inv[i] \in 0 .. Len(u) - 1
            /\ u[inv[i] + 1] = <<garr[i]>>
    ELSE \A i \in 1 .. gshape[1], j \in 1 .. gshape[2] :
            /\ inv[i][j] \in 0 .. Len(u) - 1
            /\ u[inv[i][j] + 1] = <<garr[i][j]>>

C7_InverseAxis ==
    (op = "unique" /\ AllHoldData /\ axis # None /\ return_inverse) =>
        /\ \A r \in Ranks : err[r] # "IndexError"
        /\ AllDone =>
                \A r \in Ranks :
                    LET rows == IF CaseA THEN gres[r] ELSE ResultRowsB
                        inv == inverse_indices[r]
                    IN /\ Len(inv) = gshape[axis + 1]
                       /\ \A i \in 1 .. Len(inv) :
                            /\ inv[i] \in 0 .. Len(rows) - 1
                            /\ rows[inv[i] + 1] = GlobalEntries[i]

\* C8: the ascending distributed sort of a one-dimensional array, with at least
\* one element on every process, raises on no process, and when it has completed
\* the results in rank order are the sorted input, each process holding its
\* original number of elements.
C8_OneDimSort ==
    (ndim = 1 /\ IsDistributed /\ ~ descending /\ gshape[1] >= size) =>
        /\ \A r \in Ranks : err[r] = "none"
        /\ AllDone =>
                /\ IsOrdered(OutputAlong(1))
                /\ SameBag(OutputAlong(1), InputAlong(1))
                /\ \A r \in Ranks : Len(result[r]) = counts[r]

\* C9: when the global length along the split axis is below the process count,
\* a process with chunk length zero raises nothing, ends with zero elements, and
\* the processes together end with the sorted data.
C9_ZeroLength ==
    (IsDistributed /\ gshape[axis + 1] < size) =>
        /\ \A r \in Ranks :
                counts[r] = 0 =>
                    /\ err[r] = "none"
                    /\ pc[r] = "done" => \A p \in Pos : Len(ResultAlong(r, p)) = 0
        /\ AllDone =>
                \A p \in Pos : /\ IsOrdered(OutputAlong(p))
                               /\ SameBag(OutputAlong(p), InputAlong(p))

\* Process r's result is its local data sorted along axis: at every local
\* position the same values, in the requested order.
LocallySorted(r) ==
    \A p \in 1 .. NPosOf(lshape(r), axis) :
        /\ IsOrdered(ResultAlong(r, p))
        /\ SameBag(ResultAlong(r, p), Transposed(a[r], lshape(r), axis)[p])

\* C10: when the array is not split or the sort axis is not the split axis, no
\* process issues a collective, sends or receives a message or raises, and a
\* process that has returned holds its own local data sorted along axis.
C10_FastPath ==
    (op = "sort" /\ ~ IsDistributed) =>
        /\ \A c \in Ranks \X Ranks : chan[c] = <<>>
        /\ \A r \in Ranks :
                /\ calls[r] = <<>> /\ p2p[r] = 0 /\ err[r] = "none"
                /\ pc[r] = "done" => LocallySorted(r)

\* Several processes have returned from the sort of an array split along
\* another axis than the sort axis, one of them with data that was not in order.
C10_Witness ==
    /\ op = "sort" /\ ~ IsDistributed /\ split # None /\ size >= 2 /\ AllDone
    /\ \E r \in Ranks : \E p \in 1 .. NPosOf(lshape(r), axis) :
            ~ IsOrdered(Transposed(a[r], lshape(r), axis)[p])

\* The entries of u are in ascending order, rows lexicographically.
IsAscending(u) == \A i \in 1 .. Len(u) - 1 : ~ LexLess(u[i + 1], u[i])

\* C11: unique with sorted=True on a split array returns its entries in
\* ascending order: the result of every process that has returned without axis
\* or along the split axis, and the rows of the result of a call across the
\* split axis once every process (each holding a part of the array) has returned.
C11_SortedResult ==
    (op = "unique" /\ split # None /\ sorted) =>
        /\ CaseA => \A r \in Ranks : pc[r] = "done" => IsAscending(gres[r])
        /\ (~ CaseA /\ AllHoldData /\ AllDone) => IsAscending(ResultRowsB)

\* The part of C11 for calls without axis or along the split axis.
C11_SortedCaseA ==
    (op = "unique" /\ split # None /\ sorted /\ CaseA) =>
        \A r \in Ranks : pc[r] = "done" => IsAscending(gres[r])

\* C12: unique with sorted=True called on the result of unique(a, sorted=True)
\* of a split array a returns the entries of that result, each of them and no
\* other: on every process that has returned without axis (where the second
\* call is on an array that is not split) or along the split axis, and in the
\* rows of the result of a call across the split axis.
C12_Idempotent ==
    (op = "unique" /\ ncall = 2) =>
        /\ CaseA => \A r \in Ranks :
                        pc[r] = "done" => Distinct(gres[r]) = Distinct(first_res)
        /\ (~ CaseA /\ AllDone) => Distinct(ResultRowsB) = Distinct(first_res)

\* The second call has taken the shortcut of an array that is not split and
\* has returned on each of several processes, after a first call without axis
\* whose result had several entries.
C12_Witness ==
    /\ op = "unique" /\ ncall = 2 /\ AllDone /\ size >= 2
    /\ split = None /\ Len(first_res) >= 2 /\ Len(gres[0]) >= 2

\* The collective process r is in, waiting for the others, if it is in one.
PendingCall(r) ==
    CASE pc[r] = "gatherv" -> <<"Gatherv">>
      [] pc[r] = "bcast" -> <<"Bcast">>
      [] pc[r] = "allreduce" -> <<"Allreduce">>
      [] pc[r] = "alltoall" -> <<"Alltoall">>
      [] pc[r] = "allgather" -> <<"Allgather">>
      [] pc[r] = "allgatherv" -> <<"Allgatherv">>
      [] pc[r] = "inverse_gather" -> <<"Allgatherv">>
      [] pc[r] = "coordinate" -> <<"Bcast">>
      [] OTHER -> <<>>

\* The collectives process r has issued so far, in order.
Issued(r) == [k \in 1 .. Len(calls[r]) |-> calls[r][k][1]] \o PendingCall(r)

IsPrefix(s, t) == Len(s) <= Len(t) /\ SubSeq(t, 1, Len(s)) = s

\* Process r has left the call, by returning or by raising.
HasLeft(r) == pc[r] \in {"done", "raised"}

\* C13: the processes issue the same collectives in the same order and with
\* the same roots: of any two processes one has issued a prefix of what the
\* other has, the collectives they have completed agree in name and root, and
\* a process that has left the call has issued every collective that any other
\* process has issued.
C13_Lockstep ==
    \A r, q \in Ranks :
        /\ IsPrefix(Issued(r), Issued(q)) \/ IsPrefix(Issued(q), Issued(r))
        /\ IsPrefix(calls[r], calls[q]) \/ IsPrefix(calls[q], calls[r])
        /\ HasLeft(r) => IsPrefix(Issued(q), Issued(r))

\* The part of C13 for arrays with at least one entry along the split axis.
C13_LockstepNonEmpty ==
    (split # None /\ gshape[split + 1] >= 1) =>
        \A r, q \in Ranks :
            /\ IsPrefix(Issued(r), Issued(q)) \/ IsPrefix(Issued(q), Issued(r))
            /\ IsPrefix(calls[r], calls[q]) \/ IsPrefix(calls[q], calls[r])
            /\ HasLeft(r) => IsPrefix(Issued(q), Issued(r))

\* Process r is in the exchange and cannot go on: its next Send has no matching
\* Recv posted, or it waits in a Recv for a message that is not sent.
StuckInExchange(r) ==
    \/ pc[r] = "exchange" /\ ~ ENABLED SyncSend(r) /\ ~ ENABLED SyncSendDone(r)
    \/ pc[r] = "recv" /\ ~ ENABLED RecvAll(r)

\* C14: with sends that block until the matching receive is posted, the
\* exchange never comes to a halt: when every process has entered it and some
\* process has not got through it, some process can go on.
C14_ExchangeCompletes ==
    (\A r \in Ranks : pc[r] \in {"exchange", "recv", "rebalance"}) =>
        \/ \A r \in Ranks : pc[r] = "rebalance"
        \/ \E r \in Ranks : pc[r] # "rebalance" /\ ~ StuckInExchange(r)

\* The exchange with blocking sends has been got through by several processes,
\* one of which sent an element to another.
C14_Through ==
    /\ size >= 2 /\ \A r \in Ranks : pc[r] = "rebalance"
    /\ \E r \in Ranks : p2p[r] >= 2

\* Process q waits in the rebalance loop for an element from a sender that has
\* raised and left nothing for it.
WaitsForRaised(q) ==
    /\ pc[q] = "rebalance" /\ cur_i[q] < size
    /\ Partners(partition_matrix[q], cur_i[q], cur_p[q]) # {}
    /\ LET i == cur_i[q]
           p == cur_p[q]
           other == Partner(partition_matrix[q], i, p)
           sender == IF problem_idx[q][i][p] < 0 THEN other ELSE i
           receiver == IF problem_idx[q][i][p] < 0 THEN i ELSE other
       IN /\ q = receiver
          /\ chan[<<sender, q>>] = <<>>
          /\ pc[sender] = "raised"

\* Process q is in a call that cannot complete any more: a collective that a
\* process that has raised will never join, or a Recv from such a process.
BlockedForGood(q) ==
    /\ \E r \in Ranks : pc[r] = "raised"
    /\ PendingCall(q) # <<>> \/ WaitsForRaised(q)

\* C15: in the distributed path of sort no process raises while another one,
\* which has not raised, is left blocked in a collective or in a Recv.
C15_NoLoneFailure ==
    (op = "sort" /\ IsDistributed) =>
        \A q \in Ranks : ~ BlockedForGood(q)

\* The part of C15 for arrays with at least one entry along the split axis.
C15_NonEmpty ==
    (op = "sort" /\ IsDistributed /\ gshape[split + 1] >= 1) =>
        \A q \in Ranks : ~ BlockedForGood(q)

\* The bucket the tie rule gives value val at position p: the index of the first
\* pivot that val does not come after in the requested order, the number of
\* pivots when it comes after all of them.
TieBucket(gp, p, val) ==
    LET n == Len(gp[p])
        hits == {k \in 0 .. n : k = n \/ Before(val, gp[p][k + 1], descending)}
    IN CHOOSE k \in hits : \A j \in hits : k <= j

\* C16: every local element a process has classified has the destination of
\* the tie rule, so that an element equal to a pivot is in the lower of the two
\* buckets the pivot separates.
C16_TieRule ==
    (op = "sort" /\ IsDistributed) =>
        \A r \in Ranks :
            index_matrix[r] # <<>> =>
                \A p \in Pos :
                    \A i \in 1 .. Len(index_matrix[r][p]) :
                        index_matrix[r][p][i]
                            = TieBucket(global_pivots[r], p, local_sorted[r][p][i])

\* C17: the tag of a Send and the tag of a Recv are the same when the element
\* sent is at the position the receive is posted for, and differ when it is at
\* another position.
C17_TagsSeparate ==
    (op = "tag" /\ tag_send # None /\ tag_recv # None) =>
        (tag_send = tag_recv <=> Tail(idx_send) = idx_recv)

\* The part of C17 for arrays of two dimensions, whose positions are single
\* numbers.
C17_OneNumber ==
    (op = "tag" /\ ndim = 2 /\ tag_send # None /\ tag_recv # None) =>
        (tag_send = tag_recv <=> Tail(idx_send) = idx_recv)

\* The values the processes send to rank r for position p in the exchange, by
\* source rank.
SentTo(r, p) ==
    Flatten([s \in 1 .. size |->
        LET m == SelectSeq(Shipped(s - 1, r), LAMBDA x : x.tag = PosTag(p))
        IN [k \in 1 .. Len(m) |-> m[k].val]])

\* Process r has got through the exchange and has not sent or received
\* anything since.
ExchangeOver(r) ==
    /\ pc[r] = "rebalance"
    /\ p2p[r] = Len(Cells(r)) + SumSeq([p \in Pos |-> recv_amount(r, p)])

\* C18: once the counts are exchanged, what a process is told it receives at a
\* position sums over the senders to its entry of the all-reduced
\* partition_matrix and to the number of elements sent to it for the position,
\* and these sum over the ranks to the global length along the split axis; a
\* process that has got through the exchange holds what was sent to it, each
\* element once, and when all have no message is left.
C18_Counts ==
    (op = "sort" /\ IsDistributed /\ \A r \in Ranks : send_recv_matrix[r] # <<>>) =>
        /\ \A r \in Ranks, p \in Pos :
            /\ recv_amount(r, p) = partition_matrix[r][r][p]
            /\ recv_amount(r, p) = Len(SentTo(r, p))
            /\ SumSeq([k \in 1 .. size |-> partition_matrix[r][k - 1][p]])
                    = gshape[split + 1]
        /\ \A r \in Ranks :
            ExchangeOver(r) =>
                \A p \in Pos :
                    SameBag(SubSeq(local_result[r][p], 1, recv_amount(r, p)),
                            SentTo(r, p))
        /\ (\A r \in Ranks : ExchangeOver(r)) =>
                \A c \in Ranks \X Ranks : chan[c] = <<>>

\* Every process has got through the exchange, one of them having received
\* elements of two processes at a position, and one holding no local data.
C18_Witness ==
    /\ op = "sort" /\ IsDistributed /\ size >= 3
    /\ \A r \in Ranks : ExchangeOver(r)
    /\ \E r \in Ranks : counts[r] = 0
    /\ \E r, s, t \in Ranks, p \in Pos :
            /\ s # t
            /\ send_recv_matrix[r][s][p] > 0 /\ send_recv_matrix[r][t][p] > 0

\* The ranks above i that, by process r's books, hold more elements at
\* position p than their target.
Surplus(r, i, p) == {s \in i + 1 .. size - 1 : problem_idx[r][s][p] > 0}

\* Process r is about to handle a deficit of rank cur_i[r] and has found a
\* rank to take an element from.
ServesDeficit(r) ==
    /\ pc[r] = "rebalance" /\ cur_i[r] < size
    /\ problem_idx[r][cur_i[r]][cur_p[r]] < 0
    /\ Partners(partition_matrix[r], cur_i[r], cur_p[r]) # {}

\* C19: the rank an element is taken from for a rank with a deficit is the
\* nearest higher rank that holds more than its target.
C19_SenderHasSurplus ==
    (op = "sort" /\ IsDistributed) =>
        \A r \in Ranks :
            ServesDeficit(r) =>
                LET i == cur_i[r]
                    p == cur_p[r]
                    sender == Partner(partition_matrix[r], i, p)
                IN /\ sender \in Surplus(r, i, p)
                   /\ \A s \in Surplus(r, i, p) : sender <= s

\* The elements process r holds at position p by its own books: the first
\* count entries of its local_result, count being its target plus its recorded
\* imbalance.
Held(r, p) ==
    SubSeq(local_result[r][p], 1,
           Min2(Len(local_result[r][p]), counts[r] + problem_idx[r][r][p]))

\* The same after the step.
HeldAfter(r, p) ==
    SubSeq(local_result'[r][p], 1,
           Min2(Len(local_result'[r][p]), counts[r] + problem_idx'[r][r][p]))

\* Process r sends an element to rank d in the rebalance loop.
RebalSend(r, d) ==
    /\ pc[r] = "rebalance"
    /\ Len(chan'[<<r, d>>]) = Len(chan[<<r, d>>]) + 1

\* The step of a rebalance transfer on the sender: the element sent is one the
\* sender holds, the first in the requested order towards a lower rank and the
\* last towards a higher one, and after the step the sender holds what it
\* held without that element.
SendsExtremal(r, d) ==
    LET p == cur_p[r]
        m == chan'[<<r, d>>][Len(chan'[<<r, d>>])].val
    IN /\ \E k \in 1 .. Len(Held(r, p)) : Held(r, p)[k] = m
       /\ \A k \in 1 .. Len(Held(r, p)) :
            IF d < r THEN Before(m, Held(r, p)[k], descending)
            ELSE Before(Held(r, p)[k], m, descending)
       /\ pc'[r] = "rebalance" => SameBag(HeldAfter(r, p) \o <<m>>, Held(r, p))

\* C20: every transfer of the rebalance loop sends one element the sender
\* still holds, extremal among them, and takes it out of what the sender holds.
C20_ExtremalMoved ==
    [][\A r, d \in Ranks : RebalSend(r, d) => SendsExtremal(r, d)]_vars


\* Process r raised inside the rebalance loop: it had set up problem_idx.
RaisedInLoop(r) == pc[r] = "raised" /\ DOMAIN problem_idx[r] = Ranks

\* Process r has got through the rebalance loop.
LoopOver(r) == pc[r] = "done" \/ (pc[r] = "rebalance" /\ cur_i[r] >= size)

\* C21: the rebalance loop comes to its end on every process: no process
\* raises inside the loop, when every process is in the loop or through it
\* some process can go on until all have returned, and on a process that is
\* through the loop the recorded imbalance problem_idx of every rank is zero
\* at every position.
C21_RebalanceEnds ==
    (op = "sort" /\ IsDistributed) =>
        /\ \A r \in Ranks : ~ RaisedInLoop(r)
        /\ \A r \in Ranks :
                LoopOver(r) =>
                    \A i \in Ranks, p \in Pos : problem_idx[r][i][p] = 0
        /\ (\A r \in Ranks : pc[r] \in {"rebalance", "done"}) =>
                \/ \A r \in Ranks : pc[r] = "done"
                \/ \E r \in Ranks : ENABLED RebalStep(r) \/ ENABLED Finalize(r)

\* The last part of C21: a pass of the loop for rank cur_i leaves the recorded
\* imbalance of the ranks below it as it is.
C21_SettledKept ==
    [][\A r \in Ranks :
          (pc[r] = "rebalance" /\ pc'[r] = "rebalance") =>
              \A j \in 0 .. cur_i[r] - 1 : problem_idx'[r][j] = problem_idx[r][j]]_vars

\* The first part of C21: every pass of the loop that does not raise brings the
\* loop nearer its end: it moves on to a later rank or position, or lowers the
\* recorded imbalance of the rank it is at.
C21_PassAdvances ==
    [][\A r \in Ranks :
          (pc[r] = "rebalance" /\ pc'[r] = "rebalance"
                /\ <<cur_i[r], cur_p[r], problem_idx[r]>>
                        # <<cur_i'[r], cur_p'[r], problem_idx'[r]>>) =>
              LET i == cur_i[r]
                  p == cur_p[r]
                  old == problem_idx[r][i][p]
                  new == problem_idx'[r][i][p]
              IN \/ cur_i'[r] > i
                 \/ cur_i'[r] = i /\ cur_p'[r] > p
                 \/ /\ cur_i'[r] = i /\ cur_p'[r] = p
                    /\ (IF new < 0 THEN 0 - new ELSE new)
                            < (IF old < 0 THEN 0 - old ELSE old)]_vars


\* Process r holds the global pivots of rank 0: rank 0 once it has picked them,
\* the others once the broadcast is over.
HasPivots(r) == (r = 0 /\ pc[0] = "bcast") \/ Len(calls[r]) >= 2

\* C22: the global pivots rank 0 broadcasts are, at every position, size - 1
\* values of the input at that position, in the requested sort order
\* (non-decreasing when ascending, non-increasing when descending), also when
\* some processes hold no element and contribute no pivots.
C22_PivotSet ==
    (op = "sort" /\ IsDistributed) =>
        \A r \in Ranks :
            HasPivots(r) =>
                \A p \in Pos :
                    /\ Len(global_pivots[r][p]) = size - 1
                    /\ \A k \in 1 .. size - 1 :
                            \E j \in 1 .. Len(InputAlong(p)) :
                                InputAlong(p)[j] = global_pivots[r][p][k]
                    /\ IsOrdered(global_pivots[r][p])

\* Three processes, one of them without elements, have received two different
\* global pivots.
C22_Witness ==
    /\ op = "sort" /\ IsDistributed /\ size = 3
    /\ \E r \in Ranks : counts[r] = 0
    /\ \A r \in Ranks : Len(calls[r]) >= 2
    /\ \E p \in Pos : global_pivots[1][p][1] # global_pivots[1][p][2]


\* The transfers from rank s to rank d among the transfers t.
TransfersBetween(t, s, d) ==
    Cardinality({k \in 1 .. Len(t) : t[k][1] = s /\ t[k][2] = d})

\* C23: the processes work out the same transfers in the same order (of any
\* two processes one has worked out a prefix of what the other has, and a
\* process through the loop has worked out all of them), the sender and the
\* receiver of a transfer differ, the elements on their way from s to d are
\* the transfers s has worked out and d has not yet, and with sends that block
\* until the receive is posted the loop never comes to a halt.
C23_ScheduleAgreement ==
    (op = "sort" /\ IsDistributed) =>
        /\ \A r, q \in Ranks :
                /\ IsPrefix(transfers[r], transfers[q])
                        \/ IsPrefix(transfers[q], transfers[r])
                /\ LoopOver(r) => IsPrefix(transfers[q], transfers[r])
        /\ \A r \in Ranks : \A k \in 1 .. Len(transfers[r]) :
                transfers[r][k][1] # transfers[r][k][2]
        /\ \A s, d \in Ranks :
                (pc[s] \in {"rebalance", "done"} /\ pc[d] \in {"rebalance", "done"}) =>
                    Len(chan[<<s, d>>])
                        = TransfersBetween(transfers[s], s, d)
                            - TransfersBetween(transfers[d], s, d)
        /\ (\A r \in Ranks : pc[r] \in {"rebalance", "done"} \/ RaisedInLoop(r)) =>
                \/ \A r \in Ranks : pc[r] # "rebalance"
                \/ \E r \in Ranks : ENABLED SyncRebalStep(r) \/ ENABLED Finalize(r)


\* The part of C23 on the schedule alone: the processes work out the same
\* transfers in the same order, between two different ranks, and what is on
\* its way from s to d are the transfers s has worked out and d has not yet.
C23_SameSchedule ==
    (op = "sort" /\ IsDistributed) =>
        /\ \A r, q \in Ranks :
                IsPrefix(transfers[r], transfers[q])
                    \/ IsPrefix(transfers[q], transfers[r])
        /\ \A r \in Ranks : \A k \in 1 .. Len(transfers[r]) :
                transfers[r][k][1] # transfers[r][k][2]
        /\ \A s, d \in Ranks :
                (pc[s] \in {"rebalance", "done"} /\ pc[d] \in {"rebalance", "done"}) =>
                    Len(chan[<<s, d>>])
                        = TransfersBetween(transfers[s], s, d)
                            - TransfersBetween(transfers[d], s, d)


\* Process r is in a pass of the rebalance loop, looking for a partner of rank
\* cur_i[r].
LooksForPartner(r) == pc[r] = "rebalance" /\ cur_i[r] < size

\* Process r holds the all-reduced partition_matrix.
HasCounts(r) == Len(calls[r]) >= 3

\* C24: the partner search of the rebalance loop always finds a rank: in
\* every pass some rank above cur_i has a partition_matrix entry above 0; the
\* last rank was given at least one element at every position by the
\* classification when the global length is at least one; and the loop has
\* no pass for the last rank, whose imbalance is zero when the loop gets there.
C24_PartnerExists ==
    (op = "sort" /\ IsDistributed) =>
        \A r \in Ranks :
            /\ LooksForPartner(r) =>
                    /\ Partners(partition_matrix[r], cur_i[r], cur_p[r]) # {}
                    /\ cur_i[r] # size - 1
            /\ (HasCounts(r) /\ SplitLen >= 1) =>
                    \A p \in Pos : partition_matrix[r][size - 1][p] >= 1
            /\ err[r] # "StopIteration"

\* A process of three has looked for a partner for a rank with too many
\* elements and for a rank with too few, and found one that is not the next
\* rank.
C24_Witness ==
    /\ op = "sort" /\ IsDistributed /\ size = 3
    /\ \E r \in Ranks :
        /\ pc[r] = "done"
        /\ \E k \in 1 .. Len(transfers[r]) : transfers[r][k][1] < transfers[r][k][2]
        /\ \E k \in 1 .. Len(transfers[r]) : transfers[r][k][1] > transfers[r][k][2]
        /\ \E k \in 1 .. Len(transfers[r]) :
                transfers[r][k][2] - transfers[r][k][1] \notin {1, 0 - 1}

=============================================================================
